---- MODULE Spec2Model ----
(***************************************************************************)
(* Verification model of the chiefstaker staking program: the reward       *)
(* accounting engine (deposit_rewards, sync_rewards), the unstake request  *)
(* gate, the pool settings update, pool initialisation and the fee         *)
(* ownership crank.                                                        *)
(*                                                                         *)
(* Integer widths.  The program computes in u64 and u128 with              *)
(* WAD = 10^18.  TLC's integers are 32 bit, so the model runs the same     *)
(* arithmetic on narrower integers: WAD is 100, the largest u64 is 1844    *)
(* and the largest u128 is 3402823.  These keep the program's ratios       *)
(* u64::MAX / WAD (18.4) and u128::MAX / WAD^2 (340.3): as in the program, *)
(* a u64 times WAD always fits a u128, total_staked may exceed WAD, and    *)
(* only the running sum of the accumulator can leave its type.             *)
(***************************************************************************)
EXTENDS Integers, Sequences, FiniteSets, TLC

\* ---------------------------------------------------------------- widths
WAD == 100
U64Max == 1844
U128Max == 3402823

\* ---------------------------------------------------------------- bounds
MaxTime == 1
MaxCalls == 4

\* ------------------------------------------------------------- input sets
Users == {"u1", "u2"}
Signers == Users \cup {"admin"}
InitAuthorities == {"admin"}
PoolPDA == "pool_pda"
OtherPoolPDA == "other_pool_pda"
StrayPoolKey == "stray_pool"
PoolMint == "mint"
OtherMint == "other_mint"
PoolKeys == {PoolPDA, "wallet"}
RentFloors == {0, 2}
DepositAmounts == {0, 1, 500, U64Max}
TransferAmounts == {1}
StakeAmounts == {3, 200, 800}
MIN_TAU_SECONDS == 60
MAX_TAU_SECONDS == 10 * 365 * 24 * 60 * 60
TauInputs == {MIN_TAU_SECONDS}
TauBoundInputs ==
    {0, MIN_TAU_SECONDS - 1, MIN_TAU_SECONDS, MIN_TAU_SECONDS + 1,
     MAX_TAU_SECONDS - 1, MAX_TAU_SECONDS, MAX_TAU_SECONDS + 1}
Mints == {"ok", "wrong_program", "unpackable", "transfer_fee",
          "permanent_delegate", "transfer_hook"}
ConstAmounts == {1, 2, 5}
ConstStakes == {3, 300}
RequestAmounts == {0, 3, 200, 1000}
None == -1
MinStakeInputs == {None, 3}
LockInputs == {None, 1}
CooldownInputs == {None, 1}
LockDurations == {0, 1, 2}
StakeTimes == {0, 1, 2}
ClockValues == {0, 1, 2}

VARIABLES
    pool,        \* the StakingPool record stored in the pool account
    pool_owner,  \* owner program of the pool account: "system" or "program"
    lamports,    \* lamport balance of the pool account
    rent,        \* Rent::minimum_balance(StakingPool::LEN), fixed per cluster
    stakes,      \* user -> UserStake record
    now,         \* Clock::unix_timestamp
    lastOp,      \* name of the last instruction processed
    lastRes,     \* its result: "Ok" or the error name
    fee,         \* the pfee sharing config of the pool's mint
    received,    \* cumulative lamports credited to the pool account above rent
    settled,     \* cumulative reward already settled to positions
    calls,       \* number of instructions so far that changed an account
    syncs,       \* successful sync_rewards calls in a row, nothing in between
    hist         \* SpecConst only: the deposit, sync and transfer calls made

vars == <<pool, pool_owner, lamports, rent, stakes, now, lastOp, lastRes,
          fee, received, settled, calls, syncs, hist>>

\* ------------------------------------------------------------ arithmetic
saturating_sub(a, b) == IF a >= b THEN a - b ELSE 0

saturating_add_u64(a, b) == IF a + b > U64Max THEN U64Max ELSE a + b

\* checked_mul / checked_add on u128: -1 stands for None
checked_mul_u128(a, b) == IF a * b > U128Max THEN -1 ELSE a * b

checked_add_u128(a, b) == IF a + b > U128Max THEN -1 ELSE a + b

\* math::wad_div(a, b) = a * WAD / b in a wide intermediate, error on a
\* zero divisor or a quotient wider than u128: -1 stands for Err(MathOverflow)
wad_div(a, b) ==
    IF b = 0 THEN -1
    ELSE IF (a * WAD) \div b > U128Max THEN -1
    ELSE (a * WAD) \div b

\* ---------------------------------------------------------------- records
NoPool ==
    [initialized |-> FALSE, authority |-> "none", authority_renounced |-> FALSE,
     total_staked |-> 0, acc_reward_per_weighted_share |-> 0,
     last_update_time |-> 0, last_synced_lamports |-> 0,
     min_stake_amount |-> 0, lock_duration_seconds |-> 0,
     unstake_cooldown_seconds |-> 0, tau_seconds |-> 0, mint |-> "none"]

\* StakingPool::new
StakingPool_new(authority, tau_seconds, current_time) ==
    [initialized |-> TRUE, authority |-> authority, authority_renounced |-> FALSE,
     total_staked |-> 0, acc_reward_per_weighted_share |-> 0,
     last_update_time |-> current_time, last_synced_lamports |-> 0,
     min_stake_amount |-> 0, lock_duration_seconds |-> 0,
     unstake_cooldown_seconds |-> 0, tau_seconds |-> tau_seconds,
     mint |-> PoolMint]

\* StakingPool::derive_pda: the pool address of a mint.
derive_pda(mint) ==
    IF mint = PoolMint THEN PoolPDA
    ELSE IF mint = OtherMint THEN OtherPoolPDA
    ELSE "none"

\* The pool of another mint, created earlier by the same program.
OtherPool == [StakingPool_new("admin", MIN_TAU_SECONDS, 0) EXCEPT !.mint = OtherMint]

\* A pool record of this mint held by an account of the program at an
\* address other than the derived one.  No instruction creates such an
\* account; it is the input the address check of a handler is there for.
StrayPool == StakingPool_new("admin", MIN_TAU_SECONDS, 0)

NoStake ==
    [initialized |-> FALSE, owner |-> "none", pool |-> "none", amount |-> 0,
     last_stake_time |-> 0, reward_snapshot |-> 0,
     unstake_request_amount |-> 0, unstake_request_time |-> 0]

\* system_instruction::transfer(from, to, amount): the debit fails when the
\* payer holds less than amount, the credit when the balance leaves u64
system_transfer(funds, to_lamports, amount) ==
    IF funds < amount THEN [res |-> "InsufficientFunds", lamports |-> to_lamports]
    ELSE IF to_lamports + amount > U64Max
         THEN [res |-> "LamportOverflow", lamports |-> to_lamports]
    ELSE [res |-> "Ok", lamports |-> to_lamports + amount]

\* Fail that has already written the balance into the record.
Fail_dirty(err, p, pool_lamports) ==
    [res |-> err, pool |-> [p EXCEPT !.last_synced_lamports = pool_lamports],
     lamports |-> pool_lamports]

\* An error return of the reward engine: nothing was serialized.
Fail(err, p, pool_lamports) == [res |-> err, pool |-> p, lamports |-> pool_lamports]

\* ------------------------------------------------------ reward engine
\* -1 stands for Err(MathOverflow) in the results of the checked operations.

\* new_rewards_of that takes the whole balance above rent as new, whatever
\* has been synced already.
new_rewards_of_total(p, pool_lamports, rent_exempt_minimum) ==
    saturating_sub(pool_lamports, rent_exempt_minimum)

\* new_rewards_of that forgets the rent-exempt minimum.
new_rewards_of_norent(p, pool_lamports, rent_exempt_minimum) ==
    saturating_sub(pool_lamports, p.last_synced_lamports)

\* sync_rewards: the lamports held above rent and not yet accounted.
new_rewards_of(p, pool_lamports, rent_exempt_minimum) ==
    saturating_sub(saturating_sub(pool_lamports, rent_exempt_minimum),
                   p.last_synced_lamports)

\* total_new_rewards_of that distributes the declared amount only.
total_new_rewards_amount_only(p, pool_lamports, rent_exempt_minimum, amount) ==
    amount

\* total_new_rewards_of that distributes the undistributed lamports only.
total_new_rewards_undistributed_only(p, pool_lamports, rent_exempt_minimum, amount) ==
    saturating_sub(saturating_sub(pool_lamports, rent_exempt_minimum),
                   p.last_synced_lamports)

\* deposit_rewards: the deposit plus the undistributed lamports, measured
\* before the transfer.
total_new_rewards_of(p, pool_lamports, rent_exempt_minimum, amount) ==
    saturating_add_u64(amount,
        saturating_sub(saturating_sub(pool_lamports, rent_exempt_minimum),
                       p.last_synced_lamports))

\* reward_per_share_of that rounds the quotient up.
reward_per_share_ceil(new_rewards, total_staked_wad) ==
    IF total_staked_wad = 0 THEN -1
    ELSE (new_rewards * WAD * WAD + total_staked_wad - 1) \div total_staked_wad

\* reward_per_share = new_rewards * WAD / (total_staked * WAD)
reward_per_share_of(new_rewards, total_staked_wad) ==
    LET amount_wad == checked_mul_u128(new_rewards, WAD)
    IN IF amount_wad = -1 THEN -1 ELSE wad_div(amount_wad, total_staked_wad)

\* advance_acc that assigns the new share instead of adding it.
advance_acc_assign(acc, reward_per_share) == reward_per_share

\* acc_reward_per_weighted_share.checked_add(reward_per_share)
advance_acc(acc, reward_per_share) == checked_add_u128(acc, reward_per_share)

\* sync_pool_update that forgets to record the synced balance.
sync_pool_update_stale(p, new_acc, current_time, current_available) ==
    [p EXCEPT !.acc_reward_per_weighted_share = new_acc,
              !.last_update_time = current_time]

\* The record sync_rewards serializes.
sync_pool_update(p, new_acc, current_time, current_available) ==
    [p EXCEPT !.acc_reward_per_weighted_share = new_acc,
              !.last_update_time = current_time,
              !.last_synced_lamports = current_available]

\* deposit_pool_update that leaves last_synced_lamports as it was.
deposit_pool_update_nosync(p, new_acc, current_time, lamports_after, rent_exempt_minimum) ==
    [p EXCEPT !.acc_reward_per_weighted_share = new_acc,
              !.last_update_time = current_time]

\* deposit_pool_update that records the whole balance, rent included.
deposit_pool_update_norent(p, new_acc, current_time, lamports_after, rent_exempt_minimum) ==
    [p EXCEPT !.acc_reward_per_weighted_share = new_acc,
              !.last_update_time = current_time,
              !.last_synced_lamports = lamports_after]

\* The record deposit_rewards serializes; lamports_after is the balance
\* after the transfer.
deposit_pool_update(p, new_acc, current_time, lamports_after, rent_exempt_minimum) ==
    [p EXCEPT !.acc_reward_per_weighted_share = new_acc,
              !.last_update_time = current_time,
              !.last_synced_lamports =
                  saturating_sub(lamports_after, rent_exempt_minimum)]

\* deposit_deferred that records the deposit as synced.
deposit_deferred_synced(p, xfer) ==
    [res |-> xfer.res,
     pool |-> [p EXCEPT !.last_synced_lamports = xfer.lamports],
     lamports |-> xfer.lamports]

\* deposit_rewards with no stakers: the transfer alone, the record untouched.
deposit_deferred(p, xfer) ==
    [res |-> xfer.res, pool |-> p, lamports |-> xfer.lamports]

\* process_sync_rewards on pool record p held by an account of the given
\* owner and key with pool_lamports lamports; returns the result and the
\* record and balance the instruction leaves behind.
process_sync_rewards(p, owner, key, pool_lamports, rent_exempt_minimum, current_time) ==
    IF owner # "program" THEN Fail("InvalidAccountOwner", p, pool_lamports)
    ELSE IF ~p.initialized THEN Fail("NotInitialized", p, pool_lamports)
    ELSE IF key # derive_pda(p.mint) THEN Fail("InvalidPDA", p, pool_lamports)
    ELSE
      LET current_available == saturating_sub(pool_lamports, rent_exempt_minimum)
          new_rewards == new_rewards_of(p, pool_lamports, rent_exempt_minimum)
          total_staked_wad == checked_mul_u128(p.total_staked, WAD)
          reward_per_share == reward_per_share_of(new_rewards, total_staked_wad)
          new_acc == advance_acc(p.acc_reward_per_weighted_share, reward_per_share)
      IN IF new_rewards = 0 THEN Fail("Ok", p, pool_lamports)
         ELSE IF total_staked_wad = -1 THEN Fail("MathOverflow", p, pool_lamports)
         ELSE IF total_staked_wad = 0 THEN Fail("Ok", p, pool_lamports)
         ELSE IF reward_per_share = -1 THEN Fail("MathOverflow", p, pool_lamports)
         ELSE IF new_acc = -1 THEN Fail("MathOverflow", p, pool_lamports)
         ELSE [res |-> "Ok",
               pool |-> sync_pool_update(p, new_acc, current_time, current_available),
               lamports |-> pool_lamports]

\* process_deposit_rewards; funds is the depositor's balance.
process_deposit_rewards(p, owner, key, pool_lamports, rent_exempt_minimum, current_time, amount, is_signer, funds) ==
    IF amount = 0 THEN Fail("ZeroAmount", p, pool_lamports)
    ELSE IF ~is_signer THEN Fail("MissingRequiredSigner", p, pool_lamports)
    ELSE IF owner # "program" THEN Fail("InvalidAccountOwner", p, pool_lamports)
    ELSE IF ~p.initialized THEN Fail("NotInitialized", p, pool_lamports)
    ELSE IF key # derive_pda(p.mint) THEN Fail("InvalidPDA", p, pool_lamports)
    ELSE
      LET total_staked_wad == checked_mul_u128(p.total_staked, WAD)
          xfer == system_transfer(funds, pool_lamports, amount)
          total_new_rewards ==
              total_new_rewards_of(p, pool_lamports, rent_exempt_minimum, amount)
          reward_per_share == reward_per_share_of(total_new_rewards, total_staked_wad)
          new_acc == advance_acc(p.acc_reward_per_weighted_share, reward_per_share)
      IN IF total_staked_wad = -1 THEN Fail("MathOverflow", p, pool_lamports)
         ELSE IF total_staked_wad = 0 THEN deposit_deferred(p, xfer)
         ELSE IF reward_per_share = -1 THEN Fail("MathOverflow", p, pool_lamports)
         ELSE IF new_acc = -1 THEN Fail("MathOverflow", p, pool_lamports)
         ELSE IF xfer.res # "Ok" THEN Fail(xfer.res, p, pool_lamports)
         ELSE [res |-> "Ok",
               pool |-> deposit_pool_update(p, new_acc, current_time, xfer.lamports,
                                            rent_exempt_minimum),
               lamports |-> xfer.lamports]

\* hist: S the lamports injected, n the successful deposit and sync calls,
\* nt the transfers, tr the lamports they carried, deps the number of
\* deposits made of each amount, nsync the sync calls.
NoHist == [S |-> 0, n |-> 0, nt |-> 0, tr |-> 0,
           deps |-> [a \in ConstAmounts |-> 0], nsync |-> 0]

\* ------------------------------------------------------------------ Init
Init ==
    /\ pool = NoPool
    /\ pool_owner = "system"
    /\ lamports = 0
    /\ rent \in RentFloors
    /\ stakes = [u \in Users |-> NoStake]
    /\ now = 0
    /\ lastOp = "none"
    /\ lastRes = "none"
    /\ fee = [authority |-> "creator", recipient |-> "creator"]
    /\ received = 0
    /\ settled = 0
    /\ calls = 0
    /\ syncs = 0
    /\ hist = NoHist

\* Bookkeeping of one processed instruction; changed tells whether it wrote
\* to an account, and only such instructions count against MaxCalls.
Step(op, res, changed) ==
    /\ changed => calls < MaxCalls
    /\ calls' = IF changed THEN calls + 1 ELSE calls
    /\ lastOp' = op
    /\ lastRes' = res
    /\ syncs' = IF op = "sync_rewards" /\ res = "Ok"
                THEN (IF syncs < 2 THEN syncs + 1 ELSE 2)
                ELSE 0

\* --------------------------------------------------------------- actions
\* Owner program of the account passed as the pool: the pool PDA belongs to
\* this program once created, any other key is a system-owned wallet.
AccountOwner(key) ==
    IF key = PoolPDA THEN pool_owner
    ELSE IF key \in {OtherPoolPDA, StrayPoolKey} THEN "program"
    ELSE "system"

\* The StakingPool record deserialized from the account passed as the pool.
AccountData(key) ==
    IF key = PoolPDA THEN pool
    ELSE IF key = OtherPoolPDA THEN OtherPool
    ELSE IF key = StrayPoolKey THEN StrayPool
    ELSE NoPool

\* The lamports of the account passed as the pool.
AccountLamports(key) == IF key = PoolPDA THEN lamports ELSE rent

\* tau_out_of_bounds with both bounds exclusive.
tau_out_of_bounds_exclusive(tau_seconds) ==
    tau_seconds <= MIN_TAU_SECONDS \/ tau_seconds >= MAX_TAU_SECONDS

\* tau_seconds < MIN_TAU_SECONDS || tau_seconds > MAX_TAU_SECONDS
tau_out_of_bounds(tau_seconds) ==
    tau_seconds < MIN_TAU_SECONDS \/ tau_seconds > MAX_TAU_SECONDS

\* create_account that finds every address free.
create_account_in_use_never(owner, account_lamports) == FALSE

\* The system program's create_account refuses an address that already
\* holds lamports or is owned by a program (AccountAlreadyInUse).
create_account_in_use(owner, account_lamports) ==
    owner # "system" \/ account_lamports > 0

\* process_initialize_pool, its checks in the order of the source; the two
\* create_account calls fail on an address that already holds lamports or
\* data.  Returns the result; the pool and the vault exist afterwards only
\* when it is Ok.
process_initialize_pool(token_program_ok, is_signer, tau_seconds, mint, key, vault_key_ok, pool_in_use, vault_in_use) ==
    IF ~token_program_ok THEN "InvalidTokenProgram"
    ELSE IF ~is_signer THEN "MissingRequiredSigner"
    ELSE IF tau_out_of_bounds(tau_seconds) THEN "InvalidTau"
    ELSE IF mint = "wrong_program" THEN "InvalidMintProgram"
    ELSE IF mint = "unpackable" THEN "InvalidAccountData"
    ELSE IF mint = "transfer_fee" THEN "InvalidPoolMint"
    ELSE IF mint \in {"permanent_delegate", "transfer_hook"}
         THEN "UnsupportedMintExtension"
    ELSE IF key # derive_pda(PoolMint) THEN "InvalidPDA"
    ELSE IF ~vault_key_ok THEN "InvalidPDA"
    ELSE IF pool_in_use THEN "AccountAlreadyInUse"
    ELSE IF vault_in_use THEN "AccountAlreadyInUse"
    ELSE "Ok"

\* What process_initialize_pool returns in the current state; vault_in_use:
\* somebody sent lamports to the vault address beforehand.
init_outcome(is_signer, tau_seconds, token_program_ok, mint, key, vault_key_ok, vault_in_use) ==
    process_initialize_pool(token_program_ok, is_signer, tau_seconds, mint,
        key, vault_key_ok, create_account_in_use(pool_owner, lamports), vault_in_use)

InitializePool(authority, is_signer, tau_seconds, token_program_ok, mint, key, vault_key_ok, vault_in_use) ==
    LET res == init_outcome(is_signer, tau_seconds, token_program_ok, mint, key,
                            vault_key_ok, vault_in_use)
    IN /\ Step("initialize_pool", res, res = "Ok")
       /\ IF res = "Ok"
          THEN /\ pool' = StakingPool_new(authority, tau_seconds, now)
               /\ pool_owner' = "program"
               /\ lamports' = rent
          ELSE UNCHANGED <<pool, pool_owner, lamports>>
       /\ UNCHANGED <<hist, fee, rent, stakes, now, received, settled>>

\* The reward owed to a position since its last settlement.
pending_reward(s, acc) ==
    (s.amount * (acc - s.reward_snapshot)) \div WAD

\* Stake: add principal to a position, settling its reward first.
Stake(u, amount) ==
    /\ pool_owner = "program"
    /\ pool.initialized
    /\ amount > 0
    /\ amount >= pool.min_stake_amount
    /\ pool.total_staked + amount <= U64Max
    /\ Step("stake", "Ok", TRUE)
    /\ LET s == stakes[u]
           owed == pending_reward(s, pool.acc_reward_per_weighted_share)
       IN /\ stakes' = [stakes EXCEPT ![u] =
                 [s EXCEPT !.initialized = TRUE, !.owner = u, !.pool = PoolPDA,
                           !.amount = s.amount + amount,
                           !.last_stake_time = now,
                           !.reward_snapshot = pool.acc_reward_per_weighted_share]]
          /\ settled' = settled + owed
    /\ pool' = [pool EXCEPT !.total_staked = pool.total_staked + amount]
    /\ UNCHANGED <<hist, fee, pool_owner, lamports, rent, now, received>>

\* Lamports sent straight to the pool address by anyone, outside the program.
TransferStep(amount) ==
    /\ lamports + amount <= U64Max
    /\ Step("transfer", "Ok", TRUE)
    /\ lamports' = lamports + amount
    /\ received' = IF pool_owner = "program" THEN received + amount ELSE received
    /\ UNCHANGED <<fee, pool, pool_owner, rent, stakes, now, settled>>

Transfer(amount) == TransferStep(amount) /\ UNCHANGED hist

\* The depositor holds either nothing or all the lamports that exist outside
\* the pool account (the lamport supply fits a u64).
deposit_outcome(key, amount, is_signer, funded) ==
    process_deposit_rewards(AccountData(key), AccountOwner(key), key,
        AccountLamports(key), rent, now, amount, is_signer,
        IF funded THEN U64Max - lamports ELSE 0)

DepositRewardsStep(key, amount, is_signer, funded) ==
    /\ LET o == deposit_outcome(key, amount, is_signer, funded)
       IN /\ Step("deposit_rewards", o.res,
                  o.pool # AccountData(key) \/ o.lamports # AccountLamports(key))
          /\ pool' = IF key = PoolPDA THEN o.pool ELSE pool
          /\ lamports' = IF key = PoolPDA THEN o.lamports ELSE lamports
          /\ received' = received + (o.lamports - AccountLamports(key))
    /\ UNCHANGED <<fee, pool_owner, rent, stakes, now, settled>>

DepositRewards(key, amount, is_signer, funded) ==
    DepositRewardsStep(key, amount, is_signer, funded) /\ UNCHANGED hist

sync_outcome(key) ==
    process_sync_rewards(AccountData(key), AccountOwner(key), key,
                         AccountLamports(key), rent, now)

SyncRewardsStep(key) ==
    /\ LET o == sync_outcome(key)
       IN /\ Step("sync_rewards", o.res, o.pool # AccountData(key))
          /\ pool' = IF key = PoolPDA THEN o.pool ELSE pool
          /\ lamports' = IF key = PoolPDA THEN o.lamports ELSE lamports
    /\ UNCHANGED <<fee, pool_owner, rent, stakes, now, received, settled>>

SyncRewards(key) == SyncRewardsStep(key) /\ UNCHANGED hist

\* -------------------------------------------------------- request_unstake
has_pending_unstake_request(s) == s.unstake_request_amount > 0

effective_last_stake_time(s) == s.last_stake_time

\* `elapsed as u64` of an i64: a negative value wraps to the top of the range
as_u64(x) == IF x < 0 THEN U64Max + 1 + x ELSE x

\* request_update that takes the requested amount out of the principal.
request_update_debit(s, amount, current_time) ==
    [s EXCEPT !.amount = s.amount - amount,
              !.unstake_request_amount = amount,
              !.unstake_request_time = current_time]

\* request_update that restarts the lock of the position.
request_update_relock(s, amount, current_time) ==
    [s EXCEPT !.last_stake_time = current_time,
              !.unstake_request_amount = amount,
              !.unstake_request_time = current_time]

\* request_update that records the time but not the amount.
request_update_timeonly(s, amount, current_time) ==
    [s EXCEPT !.unstake_request_time = current_time]

\* The record request_unstake serializes.
request_update(s, amount, current_time) ==
    [s EXCEPT !.unstake_request_amount = amount,
              !.unstake_request_time = current_time]

\* owner_mismatch that accepts any signer as the owner.
owner_mismatch_never(s, user) == FALSE

\* user_stake.owner != *user_info.key
owner_mismatch(s, user) == s.owner # user

\* insufficient_stake_balance that lets every amount through.
insufficient_stake_balance_never(s, amount) == FALSE

\* user_stake.amount < amount
insufficient_stake_balance(s, amount) == s.amount < amount

\* process_request_unstake on pool record p and stake record s; stake_owner
\* is the owner program of the stake account, user the key of the third
\* account.  Returns the result and the stake record left behind.
process_request_unstake(p, owner, key, s, stake_owner, user, is_signer, current_time, amount) ==
    LET elapsed == current_time - effective_last_stake_time(s)
        err(e) == [res |-> e, stake |-> s]
    IN IF amount = 0 THEN err("ZeroAmount")
       ELSE IF ~is_signer THEN err("MissingRequiredSigner")
       ELSE IF owner # "program" THEN err("InvalidAccountOwner")
       ELSE IF ~p.initialized THEN err("NotInitialized")
       ELSE IF stake_owner # "program" THEN err("InvalidAccountOwner")
       ELSE IF ~s.initialized THEN err("NotInitialized")
       ELSE IF owner_mismatch(s, user) THEN err("InvalidOwner")
       ELSE IF s.pool # key THEN err("InvalidPool")
       ELSE IF has_pending_unstake_request(s) THEN err("PendingUnstakeRequestExists")
       ELSE IF insufficient_stake_balance(s, amount) THEN err("InsufficientStakeBalance")
       ELSE IF p.lock_duration_seconds > 0
               /\ as_u64(elapsed) < p.lock_duration_seconds THEN err("StakeLocked")
       ELSE [res |-> "Ok", stake |-> request_update(s, amount, current_time)]

\* What process_request_unstake returns in the current state for the pool
\* account key, the stake account of u and the caller user.
request_outcome(key, u, user, is_signer, amount) ==
    process_request_unstake(AccountData(key), AccountOwner(key), key, stakes[u],
        IF stakes[u].initialized THEN "program" ELSE "system",
        user, is_signer, now, amount)

RequestUnstake(key, u, user, is_signer, amount) ==
    /\ LET o == request_outcome(key, u, user, is_signer, amount)
       IN /\ Step("request_unstake", o.res, o.stake # stakes[u])
          /\ stakes' = [stakes EXCEPT ![u] = o.stake]
    /\ UNCHANGED <<hist, pool, pool_owner, lamports, rent, now, fee, received, settled>>

\* --------------------------------------------------- update_pool_settings
is_authority_renounced(p) == p.authority_renounced

\* authority_mismatch that accepts any signer.
authority_mismatch_never(p, authority_key) == FALSE

\* pool.authority != *authority_info.key
authority_mismatch(p, authority_key) == p.authority # authority_key

\* apply_settings that writes 0 to a field for which no value is supplied.
apply_settings_default(p, min_stake_amount, lock_duration_seconds, unstake_cooldown_seconds) ==
    [p EXCEPT
       !.min_stake_amount =
           IF min_stake_amount # None THEN min_stake_amount ELSE 0,
       !.lock_duration_seconds =
           IF lock_duration_seconds # None THEN lock_duration_seconds ELSE 0,
       !.unstake_cooldown_seconds =
           IF unstake_cooldown_seconds # None THEN unstake_cooldown_seconds ELSE 0]

\* The record update_pool_settings serializes: each Some(value) replaces
\* its field.
apply_settings(p, min_stake_amount, lock_duration_seconds, unstake_cooldown_seconds) ==
    [p EXCEPT
       !.min_stake_amount =
           IF min_stake_amount # None THEN min_stake_amount ELSE @,
       !.lock_duration_seconds =
           IF lock_duration_seconds # None THEN lock_duration_seconds ELSE @,
       !.unstake_cooldown_seconds =
           IF unstake_cooldown_seconds # None THEN unstake_cooldown_seconds ELSE @]

\* process_update_pool_settings without the check of the renounced flag.
process_update_pool_settings_norenounce(p, owner, authority_key, is_signer, min_stake_amount, lock_duration_seconds, unstake_cooldown_seconds) ==
    IF ~is_signer THEN [res |-> "MissingRequiredSigner", pool |-> p]
    ELSE IF owner # "program" THEN [res |-> "InvalidAccountOwner", pool |-> p]
    ELSE IF ~p.initialized THEN [res |-> "NotInitialized", pool |-> p]
    ELSE IF authority_mismatch(p, authority_key)
         THEN [res |-> "InvalidAuthority", pool |-> p]
    ELSE [res |-> "Ok",
          pool |-> apply_settings(p, min_stake_amount, lock_duration_seconds,
                                  unstake_cooldown_seconds)]

process_update_pool_settings(p, owner, authority_key, is_signer, min_stake_amount, lock_duration_seconds, unstake_cooldown_seconds) ==
    IF ~is_signer THEN [res |-> "MissingRequiredSigner", pool |-> p]
    ELSE IF owner # "program" THEN [res |-> "InvalidAccountOwner", pool |-> p]
    ELSE IF ~p.initialized THEN [res |-> "NotInitialized", pool |-> p]
    ELSE IF is_authority_renounced(p) THEN [res |-> "AuthorityRenounced", pool |-> p]
    ELSE IF authority_mismatch(p, authority_key)
         THEN [res |-> "InvalidAuthority", pool |-> p]
    ELSE [res |-> "Ok",
          pool |-> apply_settings(p, min_stake_amount, lock_duration_seconds,
                                  unstake_cooldown_seconds)]

\* What process_update_pool_settings returns in the current state for the
\* pool account key.
update_outcome(key, authority_key, is_signer, m, l, c) ==
    process_update_pool_settings(AccountData(key), AccountOwner(key),
                                 authority_key, is_signer, m, l, c)

UpdatePoolSettings(key, authority_key, is_signer, m, l, c) ==
    /\ LET o == update_outcome(key, authority_key, is_signer, m, l, c)
       IN /\ Step("update_pool_settings", o.res, o.pool # AccountData(key))
          /\ pool' = IF key = PoolPDA THEN o.pool ELSE pool
    /\ UNCHANGED <<hist, pool_owner, lamports, rent, stakes, now, fee, received, settled>>

\* Renounce: the stored authority gives the pool up for good; the authority
\* is cleared and the pool marked renounced.
RenounceAuthority(authority_key) ==
    /\ pool_owner = "program"
    /\ pool.initialized
    /\ ~is_authority_renounced(pool)
    /\ pool.authority = authority_key
    /\ Step("renounce_authority", "Ok", TRUE)
    /\ pool' = [pool EXCEPT !.authority_renounced = TRUE, !.authority = "none"]
    /\ UNCHANGED <<hist, pool_owner, lamports, rent, stakes, now, fee, received, settled>>

\* ----------------------------------------------------- take_fee_ownership
\* pfee update_fee_shares, signed by the pool PDA: refused unless the signer
\* is the sharing authority, and refused when pfee rejects the new shares on
\* grounds of its own (accepted = FALSE); makes the shareholder the
\* recipient of 10000 bps.
pfee_update_fee_shares(f, signer, shareholder, accepted) ==
    IF f.authority = signer /\ accepted
    THEN [res |-> "Ok", fee |-> [f EXCEPT !.recipient = shareholder]]
    ELSE [res |-> "PfeeError", fee |-> f]

\* pfee_revoke_fee_sharing_authority that leaves the authority in place.
pfee_revoke_fee_sharing_authority_kept(f, signer) ==
    IF f.authority = signer
    THEN [res |-> "Ok", fee |-> f]
    ELSE [res |-> "PfeeError", fee |-> f]

\* pfee revoke_fee_sharing_authority, signed by the pool PDA.
pfee_revoke_fee_sharing_authority(f, signer) ==
    IF f.authority = signer
    THEN [res |-> "Ok", fee |-> [f EXCEPT !.authority = "revoked"]]
    ELSE [res |-> "PfeeError", fee |-> f]

\* process_take_fee_ownership that goes on to the revocation when the
\* update of the shares has failed.
process_take_fee_ownership_revoke_anyway(p, owner, key, mint_key, pfee_program_ok, shares_accepted, f) ==
    IF owner # "program" THEN [res |-> "InvalidAccountOwner", fee |-> f]
    ELSE IF ~p.initialized THEN [res |-> "NotInitialized", fee |-> f]
    ELSE IF key # derive_pda(p.mint) THEN [res |-> "InvalidPDA", fee |-> f]
    ELSE IF p.mint # mint_key THEN [res |-> "InvalidPoolMint", fee |-> f]
    ELSE IF ~pfee_program_ok THEN [res |-> "IncorrectProgramId", fee |-> f]
    ELSE
      LET upd == pfee_update_fee_shares(f, key, key, shares_accepted)
          rev == pfee_revoke_fee_sharing_authority(upd.fee, key)
      IN IF rev.res # "Ok" THEN [res |-> rev.res, fee |-> f]
         ELSE [res |-> "Ok", fee |-> rev.fee]

\* process_take_fee_ownership: the checks, then the two CPIs signed by the
\* pool PDA; an error of either CPI fails the instruction and nothing it
\* did persists.
process_take_fee_ownership(p, owner, key, mint_key, pfee_program_ok, shares_accepted, f) ==
    IF owner # "program" THEN [res |-> "InvalidAccountOwner", fee |-> f]
    ELSE IF ~p.initialized THEN [res |-> "NotInitialized", fee |-> f]
    ELSE IF key # derive_pda(p.mint) THEN [res |-> "InvalidPDA", fee |-> f]
    ELSE IF p.mint # mint_key THEN [res |-> "InvalidPoolMint", fee |-> f]
    ELSE IF ~pfee_program_ok THEN [res |-> "IncorrectProgramId", fee |-> f]
    ELSE
      LET upd == pfee_update_fee_shares(f, key, key, shares_accepted)
          rev == pfee_revoke_fee_sharing_authority(upd.fee, key)
      IN IF upd.res # "Ok" THEN [res |-> upd.res, fee |-> f]
         ELSE IF rev.res # "Ok" THEN [res |-> rev.res, fee |-> f]
         ELSE [res |-> "Ok", fee |-> rev.fee]

take_fee_outcome(key, mint_key, pfee_program_ok, shares_accepted) ==
    process_take_fee_ownership(AccountData(key), AccountOwner(key), key, mint_key,
                               pfee_program_ok, shares_accepted, fee)

TakeFeeOwnership(key, mint_key, pfee_program_ok, shares_accepted) ==
    /\ LET o == take_fee_outcome(key, mint_key, pfee_program_ok, shares_accepted)
       IN /\ Step("take_fee_ownership", o.res, o.fee # fee)
          /\ fee' = o.fee
    /\ UNCHANGED <<hist, pool, pool_owner, lamports, rent, stakes, now, received, settled>>

\* The creator hands the fee sharing authority to the pool PDA
\* (pfee transfer_fee_sharing_authority, outside this program).
TransferFeeSharingAuthority ==
    /\ fee.authority = "creator"
    /\ pool_owner = "program"
    /\ Step("transfer_fee_sharing_authority", "Ok", TRUE)
    /\ fee' = [fee EXCEPT !.authority = PoolPDA]
    /\ UNCHANGED <<hist, pool, pool_owner, lamports, rent, stakes, now, received, settled>>

Tick ==
    /\ now < MaxTime
    /\ now' = now + 1
    /\ UNCHANGED <<pool, pool_owner, lamports, rent, stakes, lastOp, lastRes,
                   fee, received, settled, calls, syncs, hist>>

\* Inputs of the instructions: every well-formed call, and for each check
\* of a handler one call that fails it.
InitInputs ==
    {<<a, TRUE, tau, TRUE, "ok", PoolPDA, TRUE, FALSE>> :
        a \in InitAuthorities, tau \in TauInputs}
    \cup {<<"admin", FALSE, MIN_TAU_SECONDS, TRUE, "ok", PoolPDA, TRUE, FALSE>>,
          <<"admin", TRUE, MIN_TAU_SECONDS - 1, TRUE, "ok", PoolPDA, TRUE, FALSE>>,
          <<"admin", TRUE, MIN_TAU_SECONDS, TRUE, "ok", PoolPDA, TRUE, TRUE>>}

\* Pool setup: every tau around the two bounds, and one call per check of
\* the handler that fails it.
SetupInputs ==
    {<<a, sg, tau, TRUE, "ok", PoolPDA, TRUE, FALSE>> :
        a \in InitAuthorities, sg \in BOOLEAN, tau \in TauBoundInputs}
    \cup {<<"admin", TRUE, tau, FALSE, "ok", PoolPDA, TRUE, FALSE>> :
             tau \in TauBoundInputs}
    \cup {<<"admin", TRUE, MIN_TAU_SECONDS, TRUE, m, PoolPDA, TRUE, FALSE>> :
             m \in Mints \ {"ok"}}
    \cup {<<"admin", TRUE, MIN_TAU_SECONDS, TRUE, "ok", "wallet", TRUE, FALSE>>,
          <<"admin", TRUE, MIN_TAU_SECONDS, TRUE, "ok", PoolPDA, FALSE, FALSE>>,
          <<"admin", TRUE, MIN_TAU_SECONDS, TRUE, "ok", PoolPDA, TRUE, TRUE>>}

DepositInputs ==
    {<<PoolPDA, a, TRUE, TRUE>> : a \in DepositAmounts}
    \cup {<<"wallet", 1, TRUE, TRUE>>, <<PoolPDA, 1, FALSE, TRUE>>,
          <<PoolPDA, 1, TRUE, FALSE>>, <<PoolPDA, U64Max, TRUE, FALSE>>}

RequestInputs ==
    {<<PoolPDA, u, u, TRUE, a>> : u \in Users, a \in RequestAmounts}
    \cup {<<PoolPDA, u, u, FALSE, 3>> : u \in Users}
    \cup {<<PoolPDA, u, "admin", TRUE, 3>> : u \in Users}
    \cup {<<PoolPDA, "u1", "u2", TRUE, 3>>}
    \cup {<<"wallet", u, u, TRUE, 3>> : u \in Users}
    \cup {<<OtherPoolPDA, u, u, TRUE, 3>> : u \in Users}

UpdateFaults ==
    {<<PoolPDA, "admin", FALSE, 3, 1, 1>>, <<PoolPDA, "u1", TRUE, 3, 1, 1>>,
     <<"wallet", "admin", TRUE, 3, 1, 1>>}

UpdateInputs ==
    {<<PoolPDA, "admin", TRUE, None, None, None>>,
     <<PoolPDA, "admin", TRUE, None, 1, None>>,
     <<PoolPDA, "admin", TRUE, 3, 1, 1>>}
    \cup UpdateFaults

\* Every combination of Some and None for the three settings.
SettingsInputs ==
    {<<PoolPDA, a, TRUE, m, l, c>> :
        a \in Signers, m \in MinStakeInputs, l \in LockInputs, c \in CooldownInputs}
    \cup UpdateFaults
    \cup {<<OtherPoolPDA, "u1", TRUE, 3, 1, 1>>}

RenounceInputs == InitAuthorities

StakeInputs == {<<"u1", 3>>, <<"u2", 200>>}

TakeFeeInputs ==
    {<<PoolPDA, PoolMint, TRUE, TRUE>>, <<"wallet", PoolMint, TRUE, TRUE>>,
     <<PoolPDA, OtherMint, TRUE, TRUE>>, <<PoolPDA, PoolMint, FALSE, TRUE>>,
     <<PoolPDA, PoolMint, TRUE, FALSE>>}

\* The reward engine on its own: setup, staking, and the three ways lamports
\* reach the pool account and the accumulator.
NextRewards ==
    \/ \E i \in InitInputs : InitializePool(i[1], i[2], i[3], i[4], i[5], i[6], i[7], i[8])
    \/ \E u \in Users, a \in StakeAmounts : Stake(u, a)
    \/ \E a \in TransferAmounts : Transfer(a)
    \/ \E i \in DepositInputs : DepositRewards(i[1], i[2], i[3], i[4])
    \/ \E k \in PoolKeys : SyncRewards(k)
    \/ Tick

SpecRewards == Init /\ [][NextRewards]_vars

\* ------------------------------------------------- constant total_staked
\* A pool whose total_staked stays T > 0: the state after setup and one
\* stake of T, then only deposits, syncs and out-of-band transfers.  hist
\* records the calls made.
InitConst ==
    /\ rent \in RentFloors
    /\ \E T \in ConstStakes :
         /\ pool = [StakingPool_new("admin", MIN_TAU_SECONDS, 0) EXCEPT !.total_staked = T]
         /\ stakes = [u \in Users |->
                IF u = "u1"
                THEN [NoStake EXCEPT !.initialized = TRUE, !.owner = u,
                                     !.pool = PoolPDA, !.amount = T]
                ELSE NoStake]
    /\ pool_owner = "program"
    /\ lamports = rent
    /\ now = 0
    /\ lastOp = "stake"
    /\ lastRes = "Ok"
    /\ fee = [authority |-> "creator", recipient |-> "creator"]
    /\ received = 0
    /\ settled = 0
    /\ calls = 0
    /\ syncs = 0
    /\ hist = NoHist

HistRoom == hist.n + hist.nt < MaxCalls

ConstTransfer(a) ==
    /\ HistRoom
    /\ TransferStep(a)
    /\ hist' = [hist EXCEPT !.S = @ + a, !.nt = @ + 1, !.tr = @ + a]

ConstDeposit(a) ==
    /\ HistRoom
    /\ DepositRewardsStep(PoolPDA, a, TRUE, TRUE)
    /\ hist' = IF lastRes' = "Ok"
               THEN [hist EXCEPT !.S = @ + a, !.n = @ + 1, !.deps[a] = @ + 1]
               ELSE hist

ConstSync ==
    /\ HistRoom
    /\ SyncRewardsStep(PoolPDA)
    /\ hist' = IF lastRes' = "Ok"
               THEN [hist EXCEPT !.n = @ + 1, !.nsync = @ + 1]
               ELSE hist

NextConst ==
    \/ \E a \in ConstAmounts : ConstTransfer(a)
    \/ \E a \in ConstAmounts : ConstDeposit(a)
    \/ ConstSync

SpecConst == InitConst /\ [][NextConst]_vars

\* The stake lifecycle on its own: setup, staking, the settings that gate a
\* withdrawal request, and the request.
NextUnstake ==
    \/ \E i \in InitInputs : InitializePool(i[1], i[2], i[3], i[4], i[5], i[6], i[7], i[8])
    \/ \E i \in StakeInputs : Stake(i[1], i[2])
    \/ \E i \in UpdateInputs : UpdatePoolSettings(i[1], i[2], i[3], i[4], i[5], i[6])
    \/ \E i \in RequestInputs : RequestUnstake(i[1], i[2], i[3], i[4], i[5])
    \/ Tick

SpecUnstake == Init /\ [][NextUnstake]_vars

\* The lock gate of request_unstake as a function of its inputs: a pool
\* with any lock duration, a position with any last stake time, and any
\* value of the Clock sysvar.
InitLock ==
    /\ rent \in RentFloors
    /\ \E L \in LockDurations :
         pool = [StakingPool_new("admin", MIN_TAU_SECONDS, 0) EXCEPT
                    !.total_staked = 3, !.lock_duration_seconds = L]
    /\ \E t \in StakeTimes :
         stakes = [u \in Users |->
                IF u = "u1"
                THEN [NoStake EXCEPT !.initialized = TRUE, !.owner = u,
                                     !.pool = PoolPDA, !.amount = 3,
                                     !.last_stake_time = t]
                ELSE NoStake]
    /\ now \in ClockValues
    /\ pool_owner = "program"
    /\ lamports = rent
    /\ lastOp = "stake"
    /\ lastRes = "Ok"
    /\ fee = [authority |-> "creator", recipient |-> "creator"]
    /\ received = 0
    /\ settled = 0
    /\ calls = 0
    /\ syncs = 0
    /\ hist = NoHist

NextLock ==
    \/ \E i \in RequestInputs : RequestUnstake(i[1], i[2], i[3], i[4], i[5])
    \/ Tick

SpecLock == InitLock /\ [][NextLock]_vars

\* Pool setup on its own: initialize_pool with every input, on an address
\* that may have received lamports beforehand.
NextSetup ==
    \/ \E i \in SetupInputs : InitializePool(i[1], i[2], i[3], i[4], i[5], i[6], i[7], i[8])
    \/ \E a \in TransferAmounts : Transfer(a)
    \/ Tick

SpecSetup == Init /\ [][NextSetup]_vars

\* The whole program.
Next ==
    \/ \E i \in InitInputs : InitializePool(i[1], i[2], i[3], i[4], i[5], i[6], i[7], i[8])
    \/ \E i \in StakeInputs : Stake(i[1], i[2])
    \/ \E a \in TransferAmounts : Transfer(a)
    \/ \E i \in DepositInputs : DepositRewards(i[1], i[2], i[3], i[4])
    \/ \E k \in PoolKeys : SyncRewards(k)
    \/ \E i \in RequestInputs : RequestUnstake(i[1], i[2], i[3], i[4], i[5])
    \/ \E i \in UpdateInputs : UpdatePoolSettings(i[1], i[2], i[3], i[4], i[5], i[6])
    \/ \E a \in RenounceInputs : RenounceAuthority(a)
    \/ \E i \in TakeFeeInputs : TakeFeeOwnership(i[1], i[2], i[3], i[4])
    \/ TransferFeeSharingAuthority
    \/ Tick

Spec == Init /\ [][Next]_vars

\* ================================================================ claims
Acc(p) == p.acc_reward_per_weighted_share

\* The three ledger fields the reward engine writes.
EngineFields(p) ==
    <<p.acc_reward_per_weighted_share, p.last_synced_lamports, p.last_update_time>>

\* C1 - No double counting: a sync_rewards call that directly follows a
\* successful sync_rewards call, with no other instruction and no transfer
\* in between (time may pass), succeeds and leaves
\* acc_reward_per_weighted_share, last_synced_lamports and last_update_time
\* as the first call left them.
C1_NoDoubleCounting ==
    [][(syncs >= 1 /\ SyncRewards(PoolPDA)) =>
          /\ lastRes' = "Ok"
          /\ EngineFields(pool') = EngineFields(pool)]_vars

\* A second sync in a row, made later than a first one that advanced the
\* accumulator.
C1_Witness ==
    /\ syncs = 2
    /\ Acc(pool) > 0
    /\ now > pool.last_update_time

\* ------------------------------------------------------------------- C3
RECURSIVE SumPending(_, _)
SumPending(S, acc) ==
    IF S = {} THEN 0
    ELSE LET u == CHOOSE x \in S : TRUE
         IN pending_reward(stakes[u], acc) + SumPending(S \ {u}, acc)

\* Reward distributed so far: settled at stake changes plus pending in the
\* positions.
Distributed == settled + SumPending(Users, Acc(pool))

\* C3 - Invariant I3: under any interleaving of deposit_rewards,
\* sync_rewards, out-of-band transfers and stake changes, the reward
\* distributed to stakers (settled plus amount x accumulator growth / WAD
\* over the positions) never exceeds the lamports the pool account has
\* received above its rent-exempt floor.
C3_DistributedWithinReceived == Distributed <= received

\* A position was re-staked after a distribution, so part of the reward is
\* settled.
C3_Witness ==
    /\ settled > 0
    /\ pool.total_staked > 0
    /\ lastOp = "stake"

\* ------------------------------------------------------------------- C4
\* Lamports held above rent that are not folded into last_synced_lamports.
Unaccounted(p, bal) == bal - rent - p.last_synced_lamports

\* C4 - Invariant I4, deferral: while total_staked = 0, a deposit_rewards
\* call with amount > 0 that the depositor can pay and a sync_rewards call
\* both succeed and leave the accumulator, last_synced_lamports and
\* last_update_time unchanged; the deposit raises the balance, and so the
\* un-accounted funds, by exactly amount.
C4_Deferral ==
    [][(pool.initialized /\ pool.total_staked = 0) =>
          /\ \A a \in DepositAmounts :
                (a > 0 /\ a <= U64Max - lamports
                 /\ DepositRewards(PoolPDA, a, TRUE, TRUE)) =>
                   /\ lastRes' = "Ok"
                   /\ EngineFields(pool') = EngineFields(pool)
                   /\ lamports' = lamports + a
                   /\ Unaccounted(pool', lamports') = Unaccounted(pool, lamports) + a
          /\ SyncRewards(PoolPDA) =>
                /\ lastRes' = "Ok"
                /\ EngineFields(pool') = EngineFields(pool)
                /\ lamports' = lamports]_vars

\* A deposit made with no stakers, later than the pool's last update.
C4_Witness ==
    /\ lastOp = "deposit_rewards"
    /\ lastRes = "Ok"
    /\ pool.total_staked = 0
    /\ Unaccounted(pool, lamports) > 0
    /\ Acc(pool) = 0
    /\ now > pool.last_update_time

\* ------------------------------------------------------------------- C5
\* What the floor of reward_per_share can cost a staker of T, in lamports:
\* less than one accumulator unit, that is at most ceil((T - 1) / WAD).
RoundingLoss(T) == (T - 1 + WAD - 1) \div WAD

\* u holds the whole stake, staked while the accumulator was 0, and nothing
\* has been folded in yet.
FirstStaker(u) ==
    /\ pool.initialized
    /\ pool.total_staked > 0
    /\ stakes[u].amount = pool.total_staked
    /\ stakes[u].reward_snapshot = 0
    /\ Acc(pool) = 0
    /\ pool.last_synced_lamports = 0
    /\ settled = 0

\* C5 - Deferral end to end: a deposit into a pool with total_staked = 0
\* and accumulator 0 leaves the accumulator at 0; once a first stake of T
\* exists, a sync_rewards call gives the single staker a claimable reward
\* (T x accumulator / WAD) equal to everything received so far, X, up to
\* the fixed-point rounding of the division.
C5_DeferredThenDistributed ==
    [][/\ (pool.initialized /\ pool.total_staked = 0 /\ Acc(pool) = 0
           /\ (\E i \in DepositInputs : DepositRewards(i[1], i[2], i[3], i[4])))
          => Acc(pool') = 0
       /\ \A u \in Users :
            (FirstStaker(u) /\ SyncRewards(PoolPDA)) =>
               LET X == lamports - rent
                   claimable == pending_reward(stakes'[u], Acc(pool'))
               IN /\ lastRes' = "Ok"
                  /\ claimable <= X
                  /\ claimable >= X - RoundingLoss(pool.total_staked)]_vars

\* Setup, a deposit of 500, a first stake of 200, a sync: the staker can
\* claim the 500.
C5_Witness ==
    /\ lastOp = "sync_rewards"
    /\ lastRes = "Ok"
    /\ calls = 4
    /\ received = 500
    /\ \E u \in Users :
          /\ stakes[u].amount = 200
          /\ pool.total_staked = 200
          /\ stakes[u].reward_snapshot = 0
          /\ pending_reward(stakes[u], Acc(pool)) = 500

\* ------------------------------------------------------------------- C6
\* C6 - Reconciliation after success: right after a successful
\* deposit_rewards made with total_staked > 0, and after a successful
\* sync_rewards that advanced the accumulator, last_synced_lamports equals
\* the balance after the transfer minus the rent-exempt floor, and a
\* sync_rewards call made next sees no new rewards and changes nothing.
C6_Reconciled ==
    [][(\/ /\ \E i \in DepositInputs : DepositRewards(i[1], i[2], i[3], i[4])
           /\ lastRes' = "Ok"
           /\ pool.total_staked > 0
        \/ /\ SyncRewards(PoolPDA)
           /\ lastRes' = "Ok"
           /\ Acc(pool') # Acc(pool))
       => /\ pool'.last_synced_lamports = lamports' - rent
          /\ new_rewards_of(pool', lamports', rent) = 0
          /\ process_sync_rewards(pool', "program", PoolPDA, lamports', rent, now').pool
                = pool']_vars

\* A deposit that folded in an earlier out-of-band transfer together with
\* its own amount, on an account with a non-zero rent floor.
C6_Witness ==
    /\ lastOp = "deposit_rewards"
    /\ lastRes = "Ok"
    /\ pool.total_staked > 0
    /\ rent > 0
    /\ received >= 2
    /\ pool.last_synced_lamports = received

\* ------------------------------------------------------------------- C8
\* C8 - Invariant I1: no step of any instruction lowers
\* acc_reward_per_weighted_share, and it changes only in a successful
\* deposit_rewards or sync_rewards made with total_staked > 0.
C8_AccMonotonic ==
    [][/\ Acc(pool') >= Acc(pool)
       /\ Acc(pool') # Acc(pool) =>
             /\ lastOp' \in {"deposit_rewards", "sync_rewards"}
             /\ lastRes' = "Ok"
             /\ pool.total_staked > 0]_vars

\* An unstake request accepted after the accumulator had advanced.
C8_Witness ==
    /\ Acc(pool) > 0
    /\ lastOp = "request_unstake"
    /\ lastRes = "Ok"

\* ------------------------------------------------------------------- C9
\* C9 - Accumulator update formula: with total_staked = T > 0 a successful
\* call advances the accumulator by exactly floor(A x WAD / T), where A is
\* (balance - floor) - last_synced_lamports for sync_rewards and amount
\* plus that quantity, measured before the transfer, for deposit_rewards.
\* With T = 1000, accumulator 0 and nothing undistributed, a deposit of 500
\* gives WAD / 2, and a position of 200 with snapshot 0 can claim 100.
C9_UpdateFormula ==
    [][/\ (SyncRewards(PoolPDA) /\ lastRes' = "Ok" /\ pool.total_staked > 0) =>
             Acc(pool') = Acc(pool)
                 + (Unaccounted(pool, lamports) * WAD) \div pool.total_staked
       /\ \A i \in DepositInputs :
             (DepositRewards(i[1], i[2], i[3], i[4]) /\ lastRes' = "Ok"
              /\ pool.total_staked > 0) =>
                Acc(pool') = Acc(pool)
                    + ((i[2] + Unaccounted(pool, lamports)) * WAD) \div pool.total_staked
       /\ (pool.total_staked = 1000 /\ Acc(pool) = 0
           /\ Unaccounted(pool, lamports) = 0
           /\ DepositRewards(PoolPDA, 500, TRUE, TRUE)) =>
             /\ 2 * Acc(pool') = WAD
             /\ \A u \in Users :
                   (stakes[u].amount = 200 /\ stakes[u].reward_snapshot = 0) =>
                      pending_reward(stakes'[u], Acc(pool')) = 100]_vars

\* The scenario of the claim: rent floor 0, positions of 200 and 800, a
\* deposit of 500.
C9_Witness ==
    /\ lastOp = "deposit_rewards"
    /\ lastRes = "Ok"
    /\ rent = 0
    /\ lamports = 500
    /\ pool.total_staked = 1000
    /\ 2 * Acc(pool) = WAD
    /\ \E u \in Users :
          /\ stakes[u].amount = 200
          /\ stakes[u].reward_snapshot = 0
          /\ pending_reward(stakes[u], Acc(pool)) = 100

\* ------------------------------------------------------------------ C10
\* An intermediate quantity of the call leaves the width of its type.
EngineOverflows(A, p) ==
    \/ A > U64Max
    \/ A * WAD > U128Max
    \/ p.total_staked * WAD > U128Max
    \/ Acc(p) + (A * WAD) \div p.total_staked > U128Max

\* C10 - Overflow safety: a deposit_rewards or sync_rewards call in which
\* amount plus the undistributed funds, A x WAD, total_staked x WAD or
\* accumulator + reward_per_share exceeds the width of its integer type
\* fails with MathOverflow and changes neither the ledger nor the balance.
C10_OverflowSafety ==
    [][(pool.initialized /\ pool.total_staked > 0) =>
          /\ \A i \in DepositInputs :
                (i[1] = PoolPDA /\ i[2] > 0 /\ i[3]
                 /\ DepositRewards(i[1], i[2], i[3], i[4])
                 /\ EngineOverflows(i[2] + Unaccounted(pool, lamports), pool)) =>
                   /\ lastRes' = "MathOverflow"
                   /\ pool' = pool
                   /\ lamports' = lamports
          /\ (SyncRewards(PoolPDA)
              /\ EngineOverflows(Unaccounted(pool, lamports), pool)) =>
                /\ lastRes' = "MathOverflow"
                /\ pool' = pool
                /\ lamports' = lamports]_vars

\* --------------------------------------------------------- C2 and C7
\* SpecConst: every lamport injected so far has been folded in.
Folded == pool.last_synced_lamports = lamports - rent

\* SpecConst: what the stakers have been given, T x accumulator / WAD.
DistributedConst == (pool.total_staked * Acc(pool)) \div WAD

CeilDiv(a, b) == (a + b - 1) \div b

\* The calls of hist replayed in one fixed order: the transfers, then the
\* deposits by rising amount, then the syncs.
RECURSIVE ReplayDeposits(_, _)
ReplayDeposits(st, bag) ==
    IF \A a \in ConstAmounts : bag[a] = 0 THEN st
    ELSE LET a == CHOOSE x \in ConstAmounts :
                    bag[x] > 0 /\ \A y \in ConstAmounts : bag[y] > 0 => x <= y
             o == process_deposit_rewards(st.pool, "program", PoolPDA, st.lamports,
                      rent, 0, a, TRUE, U64Max - st.lamports)
         IN ReplayDeposits([pool |-> o.pool, lamports |-> o.lamports],
                           [bag EXCEPT ![a] = @ - 1])

RECURSIVE ReplaySyncs(_, _)
ReplaySyncs(st, k) ==
    IF k = 0 THEN st
    ELSE LET o == process_sync_rewards(st.pool, "program", PoolPDA, st.lamports, rent, 0)
         IN ReplaySyncs([pool |-> o.pool, lamports |-> o.lamports], k - 1)

CanonAcc ==
    LET start == [pool |-> [pool EXCEPT !.acc_reward_per_weighted_share = 0,
                                        !.last_synced_lamports = 0,
                                        !.last_update_time = 0],
                  lamports |-> rent + hist.tr]
    IN Acc(ReplaySyncs(ReplayDeposits(start, hist.deps), hist.nsync).pool)

Abs(x) == IF x < 0 THEN -x ELSE x

\* C2 as stated - Commutativity: with constant total_staked = T > 0, every
\* ordering of the same deposit_rewards calls, sync_rewards calls and
\* out-of-band transfers that folds all the funds in ends with the same
\* accumulator: the accumulator reached equals the one the fixed ordering
\* of the same calls reaches.
C2_OrderIndependent == Folded => Acc(pool) = CanonAcc

\* C2 amended - every ordering of the same calls that folds all the funds
\* in ends with an accumulator between floor(S x WAD / T) - (n - 1) and
\* floor(S x WAD / T), n being the number of deposit and sync calls, so two
\* orderings differ by at most n - 1 accumulator units.
C2_OrderWithinRounding ==
    Folded =>
       LET F == (hist.S * WAD) \div pool.total_staked
           slack == IF hist.n = 0 THEN 0 ELSE hist.n - 1
       IN /\ Acc(pool) <= F
          /\ Acc(pool) >= F - slack
          /\ Abs(Acc(pool) - CanonAcc) <= slack

\* Two orderings of the same calls, all funds folded in, that end one
\* accumulator unit apart.
C2_Witness ==
    /\ Folded
    /\ hist.n >= 2
    /\ Acc(pool) # CanonAcc

\* C7 as stated - Full distribution within rounding: after n deposit and
\* sync calls with constant total_staked = T > 0 that injected S in total
\* and folded it all in, the distributed amount T x accumulator / WAD lies
\* in [S - n, S].
C7_WithinOnePerCall ==
    Folded => /\ DistributedConst <= hist.S
              /\ DistributedConst >= hist.S - hist.n

\* C7 amended - the distributed amount lies in
\* [S - ceil(n x (T - 1) / WAD), S]: each call loses less than one
\* accumulator unit, which is one reward unit per call only while
\* T <= WAD + 1.
C7_WithinRounding ==
    Folded => /\ DistributedConst <= hist.S
              /\ DistributedConst >=
                    hist.S - CeilDiv(hist.n * (pool.total_staked - 1), WAD)

\* A pool with T > WAD whose calls lost more than one reward unit each.
C7_Witness ==
    /\ Folded
    /\ hist.n >= 2
    /\ pool.total_staked > WAD
    /\ DistributedConst < hist.S - hist.n

\* ------------------------------------------------------------------ C11
RECURSIVE SumAmounts(_, _)
SumAmounts(st, S) ==
    IF S = {} THEN 0
    ELSE LET u == CHOOSE x \in S : TRUE
         IN st[u].amount + SumAmounts(st, S \ {u})

\* The instructions of the program other than pool setup.
LedgerOps ==
    {"deposit_rewards", "sync_rewards", "request_unstake", "update_pool_settings",
     "take_fee_ownership"}

\* C11 - Invariant I2: in every reachable state the sum of the positions'
\* amount equals the pool's total_staked, and no deposit_rewards,
\* sync_rewards, request_unstake, update_pool_settings or take_fee_ownership
\* call, successful or not, changes total_staked or the amount of a position.
C11_SumEqualsTotalStaked ==
    /\ [](SumAmounts(stakes, Users) = pool.total_staked)
    /\ [][lastOp' \in LedgerOps =>
            /\ pool'.total_staked = pool.total_staked
            /\ \A u \in Users : stakes'[u].amount = stakes[u].amount]_vars

\* Two positions, one of them with an accepted unstake request.
C11_Witness ==
    /\ \A u \in Users : stakes[u].amount > 0
    /\ lastOp = "request_unstake"
    /\ lastRes = "Ok"
    /\ \E u \in Users : stakes[u].unstake_request_amount > 0

\* ------------------------------------------------------------------ C12
ProgramOps == LedgerOps \cup {"initialize_pool"}

\* C12 - Validate-then-mutate: whenever initialize_pool, deposit_rewards,
\* sync_rewards, request_unstake, update_pool_settings or take_fee_ownership
\* returns an error, for whatever input, the Pool Ledger, every Stake
\* Position, the pool account's owner and balance and the fee sharing
\* config are what they were before the call.
C12_FailureChangesNothing ==
    [][(lastOp' \in ProgramOps /\ lastRes' # "Ok") =>
          UNCHANGED <<pool, pool_owner, lamports, stakes, fee, received>>]_vars

\* A deposit into a staked pool that advanced the accumulator in memory and
\* then failed in the transfer.
C12_Witness ==
    /\ lastOp = "deposit_rewards"
    /\ lastRes = "InsufficientFunds"
    /\ pool.total_staked > 0
    /\ Unaccounted(pool, lamports) > 0
    /\ Acc(pool) = 0

\* ------------------------------------------------------------------ C13
\* The request fields of a position.
RequestFields(s) == <<s.unstake_request_amount, s.unstake_request_time>>

Pending(s) == s.unstake_request_amount > 0

\* C13 as stated - Single pending request: once a position holds a request,
\* a further request_unstake on it by its owner, for any amount whatsoever
\* and at any time, fails with PendingUnstakeRequestExists and leaves
\* unstake_request_amount and unstake_request_time unchanged.
C13_AnyAmountPendingError ==
    \A u \in Users : \A a \in RequestAmounts :
       Pending(stakes[u]) =>
          LET o == request_outcome(PoolPDA, u, u, TRUE, a)
          IN /\ o.res = "PendingUnstakeRequestExists"
             /\ RequestFields(o.stake) = RequestFields(stakes[u])

\* C13 amended - a successful request_unstake leaves the position with a
\* pending request; from then on every request_unstake on that position
\* fails and leaves unstake_request_amount and unstake_request_time
\* unchanged, whatever the amount, the caller and the time; the error is
\* PendingUnstakeRequestExists when the owner asks for an amount > 0 and
\* ZeroAmount when the amount is 0.
C13_SinglePendingRequest ==
    /\ [](\A i \in RequestInputs :
            LET o == request_outcome(i[1], i[2], i[3], i[4], i[5])
            IN /\ o.res = "Ok" => Pending(o.stake)
               /\ Pending(stakes[i[2]]) =>
                     /\ o.res # "Ok"
                     /\ o.stake = stakes[i[2]]
                     /\ (i[1] = PoolPDA /\ i[3] = i[2] /\ i[4] /\ i[5] > 0) =>
                           o.res = "PendingUnstakeRequestExists"
                     /\ i[5] = 0 => o.res = "ZeroAmount")
    /\ [][lastOp' = "request_unstake" =>
            \A u \in Users :
               /\ Pending(stakes[u]) =>
                     RequestFields(stakes'[u]) = RequestFields(stakes[u])
               /\ stakes'[u] # stakes[u] =>
                     (lastRes' = "Ok" /\ Pending(stakes'[u]))]_vars

\* A second request made later than the first, turned down.
C13_Witness ==
    /\ lastOp = "request_unstake"
    /\ lastRes = "PendingUnstakeRequestExists"
    /\ \E u \in Users : Pending(stakes[u]) /\ now > stakes[u].unstake_request_time

\* ------------------------------------------------------------------ C14
\* A request by the owner of the position of u that passes every check
\* made before the lock: signed, own position of this pool, no pending
\* request, 0 < amount <= position amount.
OtherwiseValid(u, a) ==
    /\ pool_owner = "program"
    /\ pool.initialized
    /\ stakes[u].initialized
    /\ stakes[u].pool = PoolPDA
    /\ ~Pending(stakes[u])
    /\ a > 0
    /\ a <= stakes[u].amount

\* Seconds from the position's last stake time to the clock value.
Elapsed(u) == now - stakes[u].last_stake_time

\* The lock gate as the specification states it.
LockGate(u, a) ==
    LET o == request_outcome(PoolPDA, u, u, TRUE, a)
        locked == pool.lock_duration_seconds > 0
                  /\ Elapsed(u) < pool.lock_duration_seconds
    IN /\ o.res = "StakeLocked" <=> locked
       /\ o.res = "Ok" <=> ~locked

LockGatingForward ==
    \A u \in Users : \A a \in RequestAmounts :
       (OtherwiseValid(u, a) /\ Elapsed(u) >= 0) => LockGate(u, a)

\* ------------------------------------------------------------------ C15
\* C15 - Effect and frame of request_unstake: a successful
\* request_unstake(amount) sets unstake_request_amount to amount and
\* unstake_request_time to the clock value and writes nothing else; no
\* request_unstake call changes the Pool Ledger, the pool balance, or the
\* amount, last stake time, reward_snapshot, owner or pool of a position,
\* so the reward a position has accrued is the same before and after.
C15_RequestEffectAndFrame ==
    /\ [](\A i \in RequestInputs :
            LET o == request_outcome(i[1], i[2], i[3], i[4], i[5])
            IN o.res = "Ok" =>
                  o.stake = [stakes[i[2]] EXCEPT !.unstake_request_amount = i[5],
                                                 !.unstake_request_time = now])
    /\ [][(lastOp' = "request_unstake" /\ now' = now) =>
            /\ UNCHANGED <<pool, pool_owner, lamports, fee>>
            /\ \A u \in Users :
                  /\ stakes'[u].amount = stakes[u].amount
                  /\ stakes'[u].last_stake_time = stakes[u].last_stake_time
                  /\ stakes'[u].reward_snapshot = stakes[u].reward_snapshot
                  /\ stakes'[u].owner = stakes[u].owner
                  /\ stakes'[u].pool = stakes[u].pool
                  /\ pending_reward(stakes'[u], Acc(pool'))
                        = pending_reward(stakes[u], Acc(pool))
                  /\ stakes'[u] # stakes[u] =>
                        /\ lastRes' = "Ok"
                        /\ stakes'[u].unstake_request_time = now
                        /\ stakes'[u].unstake_request_amount \in RequestAmounts]_vars

\* A request accepted on a position that has reward accrued and unclaimed.
C15_Witness ==
    /\ lastOp = "request_unstake"
    /\ lastRes = "Ok"
    /\ \E u \in Users :
          /\ Pending(stakes[u])
          /\ stakes[u].unstake_request_time = now
          /\ pending_reward(stakes[u], Acc(pool)) > 0

\* ------------------------------------------------------------------ C16
\* The call passes every check request_unstake makes before it compares the
\* amount with the position: signed by the stored owner, on a position of
\* the pool passed in, with no pending request.
ReachesBalanceCheck(i) ==
    /\ i[4]
    /\ AccountOwner(i[1]) = "program"
    /\ AccountData(i[1]).initialized
    /\ stakes[i[2]].initialized
    /\ stakes[i[2]].owner = i[3]
    /\ stakes[i[2]].pool = i[1]
    /\ ~Pending(stakes[i[2]])

\* C16 - Request amount bound (I6): request_unstake with amount = 0 fails
\* with ZeroAmount; with an amount greater than the position's amount it
\* never succeeds and, when nothing else is wrong with the call, fails with
\* InsufficientStakeBalance; so whenever a request is recorded,
\* 0 < unstake_request_amount <= amount, and this holds of every pending
\* request.
C16_RequestWithinAmount ==
    /\ [](\A i \in RequestInputs :
            LET o == request_outcome(i[1], i[2], i[3], i[4], i[5])
                s == stakes[i[2]]
            IN /\ i[5] = 0 => (o.res = "ZeroAmount" /\ o.stake = s)
               /\ i[5] > s.amount => (o.res # "Ok" /\ o.stake = s)
               /\ (i[5] > s.amount /\ ReachesBalanceCheck(i)) =>
                     o.res = "InsufficientStakeBalance"
               /\ o.res = "Ok" =>
                     /\ 0 < o.stake.unstake_request_amount
                     /\ o.stake.unstake_request_amount <= o.stake.amount)
    /\ [](\A u \in Users :
            Pending(stakes[u]) => stakes[u].unstake_request_amount <= stakes[u].amount)

\* One position with a request for its whole amount, and a request for
\* more than the position holds turned down.
C16_Witness ==
    /\ lastOp = "request_unstake"
    /\ lastRes = "InsufficientStakeBalance"
    /\ \E u \in Users :
          /\ Pending(stakes[u])
          /\ stakes[u].unstake_request_amount = stakes[u].amount

\* ------------------------------------------------------------------ C17
\* The accounts of the call are a pool and a position of this program.
AccountsValid(i) ==
    /\ AccountOwner(i[1]) = "program"
    /\ AccountData(i[1]).initialized
    /\ stakes[i[2]].initialized

\* C17 - Owner authorization: request_unstake changes a position only when
\* the caller has signed, is the position's stored owner, and the pool
\* account passed in is the position's stored pool.  A call for an amount
\* > 0 fails with MissingRequiredSigner when the caller has not signed;
\* on a pool and a position of this program it fails with InvalidOwner
\* when a signer other than the stored owner makes it, and with InvalidPool
\* when the owner makes it against another pool; the position is unchanged
\* in each case.
C17_OwnerAuthorization ==
    \A i \in RequestInputs :
       LET o == request_outcome(i[1], i[2], i[3], i[4], i[5])
           s == stakes[i[2]]
       IN /\ o.stake # s => (i[4] /\ s.owner = i[3] /\ s.pool = i[1])
          /\ (i[5] > 0 /\ ~i[4]) =>
                (o.res = "MissingRequiredSigner" /\ o.stake = s)
          /\ (i[5] > 0 /\ i[4] /\ AccountsValid(i) /\ s.owner # i[3]) =>
                (o.res = "InvalidOwner" /\ o.stake = s)
          /\ (i[5] > 0 /\ i[4] /\ AccountsValid(i) /\ s.owner = i[3]
              /\ s.pool # i[1]) =>
                (o.res = "InvalidPool" /\ o.stake = s)

\* The owner of a position of this pool asked for an unstake against the
\* pool of another mint.
C17_Witness ==
    /\ lastOp = "request_unstake"
    /\ lastRes = "InvalidPool"
    /\ \E u \in Users :
          /\ stakes[u].amount >= 3
          /\ stakes[u].pool = PoolPDA
          /\ ~Pending(stakes[u])

\* ------------------------------------------------------------------ C18
\* The three configurable settings of a pool.
Settings(p) ==
    <<p.min_stake_amount, p.lock_duration_seconds, p.unstake_cooldown_seconds>>

\* C18 - Authority gate on configuration: update_pool_settings changes
\* min_stake_amount, lock_duration_seconds or unstake_cooldown_seconds only
\* when the caller has signed and is the pool's stored authority; a signed
\* call by anyone else on a pool that is not renounced fails with
\* InvalidAuthority and leaves the Pool Ledger unchanged; and no other
\* instruction changes the three settings.
C18_AuthorityGate ==
    /\ [](\A i \in SettingsInputs :
            LET o == update_outcome(i[1], i[2], i[3], i[4], i[5], i[6])
                p == AccountData(i[1])
            IN /\ o.pool # p =>
                     (o.res = "Ok" /\ i[3] /\ i[2] = p.authority)
               /\ (i[3] /\ AccountOwner(i[1]) = "program" /\ p.initialized
                   /\ ~p.authority_renounced /\ i[2] # p.authority) =>
                     (o.res = "InvalidAuthority" /\ o.pool = p))
    /\ [][Settings(pool') # Settings(pool) =>
            (lastOp' = "update_pool_settings" /\ lastRes' = "Ok")]_vars

\* A signed call by somebody other than the authority, turned down on a
\* pool whose settings the authority had changed.
C18_Witness ==
    /\ lastOp = "update_pool_settings"
    /\ lastRes = "InvalidAuthority"
    /\ pool.lock_duration_seconds = 1
    /\ ~pool.authority_renounced

\* ------------------------------------------------------------------ C19
\* C19 - Renounced configuration is immutable: once the authority of a pool
\* is renounced it stays renounced, every signed update_pool_settings call
\* on the pool, by any caller, the former authority included, fails with
\* AuthorityRenounced, no update_pool_settings call at all succeeds, and
\* the three settings keep their values through every instruction.
C19_RenouncedIsImmutable ==
    /\ [](pool.authority_renounced =>
            \A i \in SettingsInputs :
               LET o == update_outcome(i[1], i[2], i[3], i[4], i[5], i[6])
               IN i[1] = PoolPDA =>
                     /\ o.res # "Ok"
                     /\ o.pool = pool
                     /\ i[3] => o.res = "AuthorityRenounced")
    /\ [][pool.authority_renounced =>
            /\ pool'.authority_renounced
            /\ Settings(pool') = Settings(pool)]_vars

\* The former authority tried to change the settings it had set before it
\* renounced.
C19_Witness ==
    /\ lastOp = "update_pool_settings"
    /\ lastRes = "AuthorityRenounced"
    /\ pool.authority_renounced
    /\ pool.lock_duration_seconds = 1

\* ------------------------------------------------------------------ C20
\* C20 - Setup bounds on the maturation period: initialize_pool with
\* tau_seconds < 60 or tau_seconds > 315,360,000 never succeeds and creates
\* no pool, and fails with InvalidTau when the token program and the
\* signature are in order; with 60 <= tau_seconds <= 315,360,000 it is
\* never rejected with InvalidTau; every pool that exists has a
\* tau_seconds within the two bounds.
C20_TauBounds ==
    /\ [](\A i \in SetupInputs :
            LET r == init_outcome(i[2], i[3], i[4], i[5], i[6], i[7], i[8])
                outside == i[3] < 60 \/ i[3] > 315360000
            IN /\ outside => r # "Ok"
               /\ (outside /\ i[2] /\ i[4]) => r = "InvalidTau"
               /\ ~outside => r # "InvalidTau")
    /\ [](pool.initialized =>
            (pool.tau_seconds >= 60 /\ pool.tau_seconds <= 315360000))
    /\ [][(lastOp' = "initialize_pool" /\ lastRes' = "InvalidTau") =>
            UNCHANGED <<pool, pool_owner, lamports>>]_vars

\* A pool created with the largest tau_seconds allowed, and a later call
\* turned down for its tau_seconds.
C20_Witness ==
    /\ pool.initialized
    /\ pool.tau_seconds = 315360000
    /\ lastOp = "initialize_pool"
    /\ lastRes = "InvalidTau"

\* ------------------------------------------------------------------ C21
\* A call of initialize_pool that passes every check before the creation of
\* the pool account.
SetupValid(i) ==
    /\ i[2]
    /\ i[4]
    /\ ~(i[3] < 60 \/ i[3] > 315360000)
    /\ i[5] = "ok"
    /\ i[6] = PoolPDA
    /\ i[7]

\* The ledger fields a second setup would reset.
SetupFields(p) ==
    <<p.initialized, p.total_staked, p.acc_reward_per_weighted_share,
      p.last_synced_lamports, p.authority, p.tau_seconds>>

\* C21 as the specification words it: initialize_pool for an asset whose
\* Pool Ledger already exists fails with AlreadyInitialized.
C21_SecondSetupAlreadyInitialized ==
    pool.initialized =>
        \A i \in SetupInputs :
            SetupValid(i) =>
                init_outcome(i[2], i[3], i[4], i[5], i[6], i[7], i[8])
                    = "AlreadyInitialized"

\* C21 - Created once: while the Pool Ledger of an asset exists no call of
\* initialize_pool for it succeeds, and a call that passes every earlier
\* check fails with AccountAlreadyInUse, the error of the creation of the
\* pool account; a call of initialize_pool leaves the existing ledger, its
\* account and the positions untouched, and no operation resets an existing
\* pool to the state of a new one: it stays initialized, and total_staked,
\* accumulator, last_synced_lamports, authority and maturation period are
\* never changed by initialize_pool.
C21_CreatedOnce ==
    /\ [](pool.initialized =>
            \A i \in SetupInputs :
                LET r == init_outcome(i[2], i[3], i[4], i[5], i[6], i[7], i[8])
                IN /\ r # "Ok"
                   /\ SetupValid(i) => r = "AccountAlreadyInUse")
    /\ [][pool.initialized =>
            /\ pool'.initialized
            /\ pool'.tau_seconds = pool.tau_seconds
            /\ lastOp' = "initialize_pool" =>
                  /\ SetupFields(pool') = SetupFields(pool)
                  /\ UNCHANGED <<pool, pool_owner, lamports, stakes>>]_vars

\* A second setup of a pool that holds stake was turned down at the creation
\* of the pool account.
C21_Witness ==
    /\ pool.initialized
    /\ pool.total_staked > 0
    /\ lastOp = "initialize_pool"
    /\ lastRes = "AccountAlreadyInUse"

\* ------------------------------------------------------------------ C22
\* The accounts of the program that hold an initialized pool record at an
\* address other than the one derived from the record's mint.
MisplacedPools ==
    {key \in {PoolPDA, OtherPoolPDA, StrayPoolKey} :
        /\ AccountOwner(key) = "program"
        /\ AccountData(key).initialized
        /\ key # derive_pda(AccountData(key).mint)}

\* deposit_rewards, sync_rewards and take_fee_ownership turn a misplaced
\* pool account down with InvalidPDA and change nothing.
AddressCheckedByRewardOps ==
    \A key \in MisplacedPools :
        /\ \A i \in DepositInputs :
              (i[2] > 0 /\ i[3]) =>
                 LET o == deposit_outcome(key, i[2], i[3], i[4])
                 IN /\ o.res = "InvalidPDA"
                    /\ o.pool = AccountData(key)
                    /\ o.lamports = AccountLamports(key)
        /\ sync_outcome(key).res = "InvalidPDA"
        /\ sync_outcome(key).pool = AccountData(key)
        /\ \A i \in TakeFeeInputs :
              LET o == take_fee_outcome(key, i[2], i[3], i[4])
              IN o.res = "InvalidPDA" /\ o.fee = fee

\* request_unstake, signed by the owner of a position for an amount > 0,
\* turns a misplaced pool account down with InvalidPDA and leaves the
\* position as it is.
AddressCheckedByRequestUnstake ==
    \A key \in MisplacedPools :
        \A u \in Users :
            stakes[u].initialized =>
                LET o == request_outcome(key, u, u, TRUE, 3)
                IN o.res = "InvalidPDA" /\ o.stake = stakes[u]

\* update_pool_settings, signed, turns a misplaced pool account down with
\* InvalidPDA and leaves the record as it is.
AddressCheckedByUpdateSettings ==
    \A key \in MisplacedPools :
        \A a \in Signers :
            LET o == update_outcome(key, a, TRUE, 3, 1, 1)
            IN o.res = "InvalidPDA" /\ o.pool = AccountData(key)

TakeFeeGateAndOnce ==
    /\ [](\A i \in TakeFeeInputs :
            LET o == take_fee_outcome(i[1], i[2], i[3], i[4])
            IN /\ o.res = "Ok" =>
                    /\ fee.authority = PoolPDA
                    /\ o.fee = [authority |-> "revoked", recipient |-> PoolPDA]
               /\ o.res # "Ok" => o.fee = fee
               /\ fee.authority = "revoked" => o.res # "Ok")
    /\ [][fee.authority = "revoked" => fee' = fee]_vars

\* A call of take_fee_ownership, successful or failed, leaves the Pool
\* Ledger, the pool account's balance, the rent floor and the positions
\* unchanged, and with them the funds not yet folded in.
TakeFeeFrame ==
    [][lastOp' = "take_fee_ownership" =>
          /\ UNCHANGED <<pool, pool_owner, lamports, rent, stakes>>
          /\ Unaccounted(pool', lamports') = Unaccounted(pool, lamports)]_vars

\* C23 as the specification words it: take_fee_ownership is gated by the
\* pool's authority, so it never succeeds on a pool whose authority has been
\* renounced; it is one-time and leaves the ledger and the balance alone.
C23_AuthorityGatedDelegation ==
    /\ []((lastOp = "take_fee_ownership" /\ lastRes = "Ok") =>
             ~pool.authority_renounced)
    /\ TakeFeeGateAndOnce
    /\ TakeFeeFrame

\* C23 - Revenue delegation stays outside the accounting: take_fee_ownership
\* needs nobody's signature; it succeeds only while the pool address holds
\* the fee sharing authority and at most once, since it revokes that
\* authority for good; a successful or failed call leaves every Pool Ledger
\* field and the pool account's balance unchanged, so the relation between
\* last_synced_lamports and the distributable balance is the same before
\* and after it.
C23_DelegationOutsideAccounting ==
    /\ TakeFeeGateAndOnce
    /\ TakeFeeFrame
    /\ [](fee.authority = "revoked" => pool.initialized)

\* The pool holds funds not yet folded in and has just taken the fees over.
C23_Witness ==
    /\ lastOp = "take_fee_ownership"
    /\ lastRes = "Ok"
    /\ fee = [authority |-> "revoked", recipient |-> PoolPDA]
    /\ lamports > rent
    /\ Unaccounted(pool, lamports) > 0

\* ------------------------------------------------------------------ C24
\* C24 - In every state reachable from setup by any interleaving of
\* deposit_rewards, sync_rewards, stake changes and out-of-band transfers
\* into the pool account: last_synced_lamports <= pool balance - rent-exempt
\* floor; last_synced_lamports never decreases; and last_synced_lamports is
\* the sum of the amounts A folded into the accumulator so far, that is, it
\* starts at 0, it changes only in a successful deposit_rewards or
\* sync_rewards call on a pool with total_staked = T > 0, the amount A by
\* which it grows is the amount that call folds in (accumulator' =
\* accumulator + floor(A x WAD / T)), and the accumulator changes in no
\* other step.
C24_SyncedIsSumOfFolded ==
    /\ [](pool.initialized =>
            /\ pool.last_synced_lamports <= lamports - rent
            /\ pool.last_synced_lamports <= received)
    /\ [](~pool.initialized => pool.last_synced_lamports = 0 /\ Acc(pool) = 0)
    /\ [][LET A == pool'.last_synced_lamports - pool.last_synced_lamports
              T == pool.total_staked
          IN /\ A >= 0
             /\ A > 0 =>
                  /\ T > 0
                  /\ lastOp' \in {"deposit_rewards", "sync_rewards"}
                  /\ lastRes' = "Ok"
                  /\ Acc(pool') = Acc(pool) + (A * WAD) \div T
             /\ A = 0 => Acc(pool') = Acc(pool)]_vars

\* Funds have been folded in on a pool with stake, and lamports that
\* arrived since are waiting to be folded in.
C24_Witness ==
    /\ pool.total_staked > 0
    /\ pool.last_synced_lamports > 1
    /\ Acc(pool) > 0
    /\ pool.last_synced_lamports < lamports - rent

\* ------------------------------------------------------------------ C25
\* The value a setting has after a successful update: the supplied one, or
\* the old one when none is supplied.
Supplied(value, old) == IF value # None THEN value ELSE old

\* C25 - Frame of update_pool_settings: a successful call sets each of
\* min_stake_amount, lock_duration_seconds and unstake_cooldown_seconds for
\* which a value is supplied to that value and leaves the ones for which
\* none is supplied, and every other ledger field (maturation period,
\* total_staked, accumulator, last_synced_lamports, last_update_time,
\* authority), as they were; the call touches nothing but the pool record;
\* and no operation changes the maturation period of an existing pool.
C25_UpdateSettingsFrame ==
    /\ [](\A i \in SettingsInputs :
            LET p == AccountData(i[1])
                o == update_outcome(i[1], i[2], i[3], i[4], i[5], i[6])
            IN o.res = "Ok" =>
                 /\ o.pool.min_stake_amount = Supplied(i[4], p.min_stake_amount)
                 /\ o.pool.lock_duration_seconds =
                        Supplied(i[5], p.lock_duration_seconds)
                 /\ o.pool.unstake_cooldown_seconds =
                        Supplied(i[6], p.unstake_cooldown_seconds)
                 /\ [o.pool EXCEPT
                       !.min_stake_amount = p.min_stake_amount,
                       !.lock_duration_seconds = p.lock_duration_seconds,
                       !.unstake_cooldown_seconds = p.unstake_cooldown_seconds] = p)
    /\ [][lastOp' = "update_pool_settings" =>
            /\ UNCHANGED <<pool_owner, lamports, rent, stakes, fee>>
            /\ \E i \in SettingsInputs :
                  pool' = IF lastRes' = "Ok"
                          THEN apply_settings(pool, i[4], i[5], i[6])
                          ELSE pool]_vars
    /\ [][pool.initialized => pool'.tau_seconds = pool.tau_seconds]_vars

\* A successful call that supplied lock_duration_seconds only, on a pool
\* that holds stake.
C25_Witness ==
    /\ lastOp = "update_pool_settings"
    /\ lastRes = "Ok"
    /\ pool.total_staked > 0
    /\ Settings(pool) = <<0, 1, 0>>

\* ------------------------------------------------------------------ C26
\* C26 - Ordering inside take_fee_ownership: the fee sharing authority is
\* revoked only in a successful call, after the update that makes the pool
\* address the sole recipient has succeeded in the same call; a call whose
\* update fails fails as a whole with the update's error and leaves the
\* authority and the recipients as they were; so in every reachable state
\* in which the authority is revoked the pool is the sole fee recipient.
C26_RevokedOnlyAfterUpdate ==
    /\ [](fee.authority = "revoked" => fee.recipient = PoolPDA)
    /\ [](\A i \in TakeFeeInputs :
            LET o == take_fee_outcome(i[1], i[2], i[3], i[4])
                upd == pfee_update_fee_shares(fee, i[1], i[1], i[4])
            IN /\ (o.fee.authority = "revoked" /\ fee.authority # "revoked") =>
                    /\ o.res = "Ok"
                    /\ upd.res = "Ok"
                    /\ o.fee.recipient = PoolPDA
               /\ upd.res # "Ok" => (o.res # "Ok" /\ o.fee = fee))
    /\ [][(fee'.authority = "revoked" /\ fee.authority # "revoked") =>
            /\ lastOp' = "take_fee_ownership"
            /\ lastRes' = "Ok"
            /\ fee'.recipient = PoolPDA]_vars

\* The pool address holds the fee sharing authority, the update of the
\* shares was refused, and the authority is still in place.
C26_Witness ==
    /\ lastOp = "take_fee_ownership"
    /\ lastRes = "PfeeError"
    /\ fee = [authority |-> PoolPDA, recipient |-> "creator"]

====
